---------------------------- MODULE Spec2Model ----------------------------
(***************************************************************************)
(* A model of the real-time spectrum analyser: the analysis engine         *)
(* (src/src/spectrum.rs, src/myalgorithm/src/lib.rs), the cpal capture     *)
(* pipeline and its manager thread (src/src/audio/capture.rs,              *)
(* src/src/main.rs), the JACK process callback                             *)
(* (src/src/audio/jack_capture.rs) and the GUI reader (src/src/app.rs).    *)
(*                                                                         *)
(* Numbers.  The program computes in f32.  The model computes in fixed     *)
(* point on TLC's 32-bit integers, each quantity in a stated unit:         *)
(*   samples, window, rms, peak, spectrum values ....... 1/Unit            *)
(*   cosines, sines, twiddle factors ................... 1/Q               *)
(*   frequencies ....................................... 1/1000 Hz         *)
(*   magnitudes ........................................ 1/Unit^2          *)
(*   decibels, logarithms .............................. 1/Unit            *)
(* An integer overflow is a TLC error, never a silent wrap.  The band-pass *)
(* path, whose values span 1e-6 .. 2e4 and reach infinity and NaN, is      *)
(* computed in a decimal floating point that has both.                     *)
(***************************************************************************)
EXTENDS Integers, Sequences, FiniteSets, TLC

----------------------------------------------------------------------------
(* Program constants. *)

SAMPLE_RATE == 44100
BUFFER_SZ == 4096
BUFFER_SZ_HALF == BUFFER_SZ \div 2
\* The Hann window's period, the literal 4095.0 of apply_window.
WINDOW_PERIOD == 4095

----------------------------------------------------------------------------
(* Fixed-point arithmetic. *)

\* One, in the unit of samples and of spectrum values.
Unit == 10^4
\* One, in the unit of cosines and sines.
Q == 2^14
\* 2*pi in units of 1/Q.
TwoPiQ == 6 * Q + 4640
\* f32's negative infinity, as log10(0.0) returns it: below every decibel
\* value the model can compute, and it stays below under +90, /90.
NegInf == 0 - 2^30

Abs(a) == IF a < 0 THEN 0 - a ELSE a
Max(a, b) == IF a >= b THEN a ELSE b
Min(a, b) == IF a <= b THEN a ELSE b
\* a / b rounded to nearest, b > 0.
RDiv(a, b) == (2 * a + b) \div (2 * b)
\* a * b / c without forming a * b; needs c * b < 2^31.
MulDiv(a, b, c) == (a \div c) * b + ((a % c) * b) \div c

\* The integer square root: the largest r with r * r <= n.
RECURSIVE SqrtBetween(_, _, _)
SqrtBetween(n, lo, hi) ==
  IF lo >= hi THEN lo
  ELSE LET mid == (lo + hi + 1) \div 2
       IN IF mid * mid <= n THEN SqrtBetween(n, mid, hi)
          ELSE SqrtBetween(n, lo, mid - 1)
ISqrt(n) == SqrtBetween(n, 0, 46340)

\* f32::sqrt of a value in units of 1/Unit, in the same unit.
SqrtU(v) == ISqrt(v * Unit)

\* floor(log2(n)) for n >= 1.
RECURSIVE FloorLog2(_)
FloorLog2(n) == IF n < 2 THEN 0 ELSE 1 + FloorLog2(n \div 2)

\* The fractional bits of log2(y / Q) for Q <= y < 2Q, by repeated squaring:
\* the sum of the bits still to come, each worth `bit` (in units of 1/Q).
RECURSIVE Log2Frac(_, _)
Log2Frac(y, bit) ==
  IF bit = 0 THEN 0
  ELSE LET y2 == (y * y) \div Q
       IN IF y2 >= 2 * Q THEN bit + Log2Frac(y2 \div 2, bit \div 2)
          ELSE Log2Frac(y2, bit \div 2)

\* log2(n) in units of 1/Q, n >= 1.
Log2Q(n) ==
  LET k == FloorLog2(n)
      y == IF k >= 14 THEN n \div (2^(k - 14)) ELSE n * 2^(14 - k)
  IN k * Q + Log2Frac(y, Q \div 2)

\* f32::log10 of the value n * 10^e, in units of 1/Unit; log10(0.0) is -inf.
Log10U(n, e) ==
  IF n <= 0 THEN NegInf
  ELSE LET l2 == Log2Q(n)
       IN (l2 * 3010) \div Q + (l2 * 3) \div (10 * Q) + e * Unit

\* cos(x) for 0 <= x <= pi/2, x and the result in units of 1/Q.
CosQ(x) ==
  LET x2 == RDiv(x * x, Q)
      t5 == Q - RDiv(x2, 90)
      t4 == Q - RDiv(RDiv(x2 * t5, Q), 56)
      t3 == Q - RDiv(RDiv(x2 * t4, Q), 30)
      t2 == Q - RDiv(RDiv(x2 * t3, Q), 12)
  IN Q - RDiv(RDiv(x2 * t2, Q), 2)

\* The angle 2*pi*a/b in units of 1/Q.
Ang(a, b) == RDiv(TwoPiQ * a, b)

\* cos(2*pi*num/den) in units of 1/Q, 0 <= num < den.
CosTurn(num, den) ==
  LET n4 == 4 * num
  IN IF n4 <= den THEN CosQ(Ang(num, den))
     ELSE IF n4 <= 2 * den THEN 0 - CosQ(Ang(den - 2 * num, 2 * den))
     ELSE IF n4 <= 3 * den THEN 0 - CosQ(Ang(2 * num - den, 2 * den))
     ELSE CosQ(Ang(den - num, den))

\* sin(2*pi*num/den) = cos(2*pi*(num/den - 1/4)).
SinTurn(num, den) == CosTurn((4 * num + 3 * den) % (4 * den), 4 * den)

\* a * t / Q for a trigonometric factor |t| <= Q.
MulQ(a, t) == (a \div Q) * t + RDiv((a % Q) * t, Q)

----------------------------------------------------------------------------
(* myalgorithm: the bin-to-frequency and decibel mappings. *)

\* A bin-to-frequency mapping without the offset of 1 Hz.
get_freq_no_offset(idx) == MulDiv(idx * SAMPLE_RATE, 1000, BUFFER_SZ \div 2)

\* get_freq(idx) in 1/1000 Hz.
get_freq(idx) ==
  MulDiv(idx * SAMPLE_RATE, 1000, BUFFER_SZ \div 2) + 1000

\* get_normalized_db(db): (db + 90.0) / 90.0.
get_normalized_db(db) == RDiv(db + 90 * Unit, 90)

----------------------------------------------------------------------------
(* rustfft: the forward transform of length BUFFER_SZ. *)

\* The twiddle factors exp(-2*pi*i*j/BUFFER_SZ) = TwCos[j+1] - i*TwSin[j+1].
TwCos == [j \in 1..BUFFER_SZ |-> CosTurn(j - 1, BUFFER_SZ)] \o << >>
TwSin == [j \in 1..BUFFER_SZ |-> SinTurn(j - 1, BUFFER_SZ)] \o << >>

\* The discrete Fourier transform of the n elements x[start], x[start+stride],
\* ... (n a power of two, n * stride = BUFFER_SZ), by decimation in time.  A
\* complex number is a pair <<re, im>>.
RECURSIVE Fft(_, _, _, _, _)
Fft(x, base, start, stride, n) ==
  IF n = 1 THEN << x[base + start] >>
  ELSE LET h == n \div 2
           E == Fft(x, base, start, 2 * stride, h)
           O == Fft(x, base, start + stride, 2 * stride, h)
           T == [k \in 1..h |->
                   LET c == TwCos[(k - 1) * stride + 1]
                       s == TwSin[(k - 1) * stride + 1]
                       o == O[k]
                   IN << MulQ(o[1], c) + MulQ(o[2], s),
                         MulQ(o[2], c) - MulQ(o[1], s) >>] \o << >>
       IN [k \in 1..h |-> << E[k][1] + T[k][1], E[k][2] + T[k][2] >>] \o
          [k \in 1..h |-> << E[k][1] - T[k][1], E[k][2] - T[k][2] >>]

\* Fft::process(buffer) on a buffer of len elements: panics when the buffer
\* is shorter than the transform or no multiple of it, and otherwise
\* transforms every chunk of BUFFER_SZ elements in place.
RECURSIVE FftChunks(_, _)
FftChunks(buffer, c) ==
  IF c * BUFFER_SZ >= Len(buffer) THEN << >>
  ELSE Fft(buffer, c * BUFFER_SZ, 1, 1, BUFFER_SZ) \o FftChunks(buffer, c + 1)

fft_process(len, buffer) ==
  IF len < BUFFER_SZ \/ len % BUFFER_SZ # 0
  THEN [panic |-> TRUE, data |-> << >>]
  ELSE [panic |-> FALSE, data |-> FftChunks(buffer, 0)]


----------------------------------------------------------------------------
(* spectrum.rs: the primary path of the analyzer. *)

\* The window coefficient 0.5 * (1.0 - cos(2*pi*i / 4095.0)) in units of 1/Q.
window(i) == (Q - CosTurn(i % WINDOW_PERIOD, WINDOW_PERIOD)) \div 2

\* apply_window: one complex number per input sample, whatever their number.
apply_window(audio_buffer) ==
  [k \in 1..Len(audio_buffer) |->
     << MulQ(audio_buffer[k], window(k - 1)), 0 >>] \o << >>

\* The sum of x * x over x[lo..hi], in units of 1/Unit.
RECURSIVE SumSquares(_, _, _)
SumSquares(x, lo, hi) ==
  IF lo > hi THEN 0
  ELSE IF lo = hi THEN MulDiv(Abs(x[lo]), Abs(x[lo]), Unit)
  ELSE LET mid == (lo + hi) \div 2
       IN SumSquares(x, lo, mid) + SumSquares(x, mid + 1, hi)

\* fold(0.0, |max, x| max.max(x.abs())) over x[lo..hi].
RECURSIVE PeakAbs(_, _, _)
PeakAbs(x, lo, hi) ==
  IF lo > hi THEN 0
  ELSE IF lo = hi THEN Abs(x[lo])
  ELSE LET mid == (lo + hi) \div 2
       IN Max(PeakAbs(x, lo, mid), PeakAbs(x, mid + 1, hi))

\* rms = sqrt(sum of squares / len).
root_mean_square(audio_buffer) ==
  SqrtU(SumSquares(audio_buffer, 1, Len(audio_buffer)) \div Len(audio_buffer))

\* dynamic_range = rms.max(peak * 0.7).
dynamic_range(audio_buffer) ==
  Max(root_mean_square(audio_buffer),
      (PeakAbs(audio_buffer, 1, Len(audio_buffer)) * 7) \div 10)

\* Complex::norm, in the unit of its parts.
norm(c) ==
  LET a == Abs(c[1])
      b == Abs(c[2])
      s == Max(a, b) \div 20000 + 1
  IN ISqrt((a \div s) * (a \div s) + (b \div s) * (b \div s)) * s

\* erb = 21.4 * log10(0.00437 * freq + 1.0), freq in 1/1000 Hz.
erb_of(freq) == (Log10U(MulDiv(freq, 437, Unit) + Unit, -4) * 214) \div 10

\* magnitude = c.norm() / BUFFER_SZ_HALF * dynamic_range, in units of 1/Unit^2.
magnitude_of(c, dyn) == MulDiv(norm(c), dyn, BUFFER_SZ_HALF)

\* The magnitude with no epsilon added to it.
add_no_epsilon(magnitude) == << magnitude, -8 >>

\* magnitude + 1e-10 as the pair <<n, e>> that stands for n * 10^e.  An f32
\* sum absorbs the 1e-10 once it is under half an ulp of the magnitude, from
\* 2^-9 on.
add_epsilon(magnitude) ==
  IF magnitude < (Unit * Unit) \div 2^9
  THEN << magnitude * 100 + 1, -10 >>
  ELSE << magnitude, -8 >>

\* db = 20.0 * (magnitude + 1e-10).log10().
decibels(magnitude) ==
  LET arg == add_epsilon(magnitude)
      l == Log10U(arg[1], arg[2])
  IN IF l = NegInf THEN NegInf ELSE 20 * l

\* A clamp from above only.
clamp_upper_only(v) == Min(v, (12 * Unit) \div 10)

\* get_normalized_db(db).clamp(0.0, 1.2).
clamp_normalized(v) == Max(0, Min(v, (12 * Unit) \div 10))

\* normalized_db * (1.0 + erb * 0.1).
erb_weighted(normalized_db, erb) ==
  (normalized_db * (Unit + erb \div 10)) \div Unit

\* The closure of filter_map for bin i and its transform value c: the locals
\* it computes, `some` telling whether the bin is emitted.
spectrum_bin(i, c, dyn) ==
  LET freq == get_freq(i)
  IN IF freq > (SAMPLE_RATE * 1000) \div 2
     THEN [some |-> FALSE, i |-> i, freq |-> freq, erb |-> 0, magnitude |-> 0,
           db |-> 0, normalized_db |-> 0, value |-> 0]
     ELSE LET erb == erb_of(freq)
              magnitude == magnitude_of(c, dyn)
              db == decibels(magnitude)
              normalized_db == clamp_normalized(get_normalized_db(db))
          IN [some |-> TRUE, i |-> i, freq |-> freq, erb |-> erb,
              magnitude |-> magnitude, db |-> db,
              normalized_db |-> normalized_db,
              value |-> erb_weighted(normalized_db, erb)]

IsSome(b) == b.some

\* A padding that stops at half the buffer size.
pad_spectrum_to_half(values) ==
  values \o [k \in 1..(BUFFER_SZ_HALF - Len(values)) |-> 0]

\* while spectrum.len() < BUFFER_SZ { spectrum.push(0.0) }
pad_spectrum(values) ==
  values \o [k \in 1..(BUFFER_SZ - Len(values)) |-> 0]

\* The smoothing loop run over the indices lo..hi, in a row of short runs.
\* Each element is rewritten in place from its own value, the value already
\* written to its left (`left`) and the value not yet rewritten to its right.
RunLen == 2^6

RECURSIVE smooth_run(_, _, _, _)
smooth_run(values, lo, hi, left) ==
  IF lo > hi THEN << >>
  ELSE LET v == (2 * values[lo] + left + values[lo + 1]) \div 4
       IN << v >> \o smooth_run(values, lo + 1, hi, v)

RECURSIVE smooth_runs(_, _, _, _)
smooth_runs(values, lo, hi, left) ==
  IF lo > hi THEN << >>
  ELSE LET run == smooth_run(values, lo, Min(lo + RunLen - 1, hi), left)
       IN run \o smooth_runs(values, lo + RunLen, hi, run[Len(run)])

\* smooth_spectrum: for i in 1..len-1, spectrum[i] = spectrum[i] * 0.5 +
\* spectrum[i-1] * 0.25 + spectrum[i+1] * 0.25 (indices from 0).
smooth_spectrum(values) ==
  IF Len(values) < 3 THEN values
  ELSE << values[1] >> \o
       smooth_runs(values, 2, Len(values) - 1, values[1]) \o
       << values[Len(values)] >>

\* spectrum = buffer.iter().take(BUFFER_SZ_HALF).enumerate().filter_map(..):
\* what the closure computed for each bin it emitted, in order.
emitted_bins(data, dyn) ==
  SelectSeq([k \in 1..Min(Len(data), BUFFER_SZ_HALF) |->
               spectrum_bin(k - 1, data[k], dyn)], IsSome)

\* The collected vector of the emitted bins.
collect(bins) == [k \in 1..Len(bins) |-> bins[k].value]

\* compute_spectrum after the transform: the spectrum is built from the
\* emitted bins, padded and smoothed.
frame_of_bins(audio_buffer, bins) ==
  [panic |-> FALSE, len |-> Len(audio_buffer), bins |-> bins,
   spectrum |-> smooth_spectrum(pad_spectrum(collect(bins)))]

frame_after_fft(audio_buffer, fft) ==
  IF fft.panic
  THEN [panic |-> TRUE, len |-> Len(audio_buffer), bins |-> << >>,
        spectrum |-> << >>]
  ELSE frame_of_bins(audio_buffer,
                     emitted_bins(fft.data, dynamic_range(audio_buffer)))

\* compute_spectrum with its locals: the outcome (a panic or the returned
\* spectrum) and, for each emitted bin, what the closure computed.
spectrum_frame(audio_buffer) ==
  frame_after_fft(audio_buffer,
                  fft_process(Len(audio_buffer), apply_window(audio_buffer)))


----------------------------------------------------------------------------
(* f32 on the band-pass path: a decimal floating point.  A value is a      *)
(* record: k = "num" stands for m * 10^e with m = 0 = e or                 *)
(* 1000 <= |m| <= 9999; k = "inf" for the infinity of sign m; k = "nan".   *)
(* Results are cut to four digits; beyond f32's range a result becomes an  *)
(* infinity or zero.                                                       *)

NaN == [k |-> "nan", m |-> 0, e |-> 0]
Inf(sign) == [k |-> "inf", m |-> sign, e |-> 0]
Zero == [k |-> "num", m |-> 0, e |-> 0]
Sign(m) == IF m < 0 THEN 0 - 1 ELSE 1
\* m / d cut towards zero.
CutDiv(m, d) == Sign(m) * (Abs(m) \div d)

\* The value m * 10^e cut to four digits.
RECURSIVE Num(_, _)
Num(m, e) ==
  IF m = 0 THEN Zero
  ELSE IF Abs(m) >= 10000 THEN Num(CutDiv(m, 10), e + 1)
  ELSE IF Abs(m) < 1000 THEN Num(m * 10, e - 1)
  ELSE IF e > 35 THEN Inf(Sign(m))
  ELSE IF e < 0 - 48 THEN Zero
  ELSE [k |-> "num", m |-> m, e |-> e]

IsNaN(a) == a.k = "nan"
IsInf(a) == a.k = "inf"
IsZero(a) == a.k = "num" /\ a.m = 0

FNeg(a) == [a EXCEPT !.m = 0 - a.m]
FAbs(a) == [a EXCEPT !.m = Abs(a.m)]

\* a + b for two numbers, the one of the larger exponent first.
AddOrdered(hi, lo) ==
  LET d == hi.e - lo.e
  IN IF d > 8 THEN hi
     ELSE Num(hi.m * 10^4 + CutDiv(lo.m * 10^4, 10^d), hi.e - 4)

FAdd(a, b) ==
  IF IsNaN(a) \/ IsNaN(b) THEN NaN
  ELSE IF IsInf(a) /\ IsInf(b) THEN (IF a.m = b.m THEN a ELSE NaN)
  ELSE IF IsInf(a) THEN a
  ELSE IF IsInf(b) THEN b
  ELSE IF IsZero(a) THEN b
  ELSE IF IsZero(b) THEN a
  ELSE IF a.e >= b.e THEN AddOrdered(a, b) ELSE AddOrdered(b, a)

FSub(a, b) == FAdd(a, FNeg(b))

FMul(a, b) ==
  IF IsNaN(a) \/ IsNaN(b) THEN NaN
  ELSE IF IsInf(a) \/ IsInf(b)
       THEN (IF IsZero(a) \/ IsZero(b) THEN NaN
             ELSE Inf(Sign(a.m) * Sign(b.m)))
  ELSE Num(a.m * b.m, a.e + b.e)

FDiv(a, b) ==
  IF IsNaN(a) \/ IsNaN(b) THEN NaN
  ELSE IF IsInf(a) THEN (IF IsInf(b) THEN NaN ELSE Inf(a.m * Sign(b.m)))
  ELSE IF IsInf(b) THEN Zero
  ELSE IF IsZero(b) THEN (IF IsZero(a) THEN NaN ELSE Inf(Sign(a.m)))
  ELSE Num(CutDiv(a.m * 10^5, Abs(b.m)) * Sign(b.m), a.e - b.e - 5)

FSqrt(a) ==
  IF IsNaN(a) THEN NaN
  ELSE IF a.m < 0 THEN NaN
  ELSE IF IsInf(a) THEN a
  ELSE IF a.e % 2 = 0 THEN Num(ISqrt(a.m * 10^4), (a.e - 4) \div 2)
  ELSE Num(ISqrt(a.m * 10^5), (a.e - 5) \div 2)

\* a < b for two values that are not NaN.
FLess(a, b) ==
  IF IsInf(a) \/ IsInf(b)
  THEN (IF IsInf(a) THEN a.m < 0 /\ ~(IsInf(b) /\ b.m < 0)
        ELSE b.m > 0)
  ELSE IsZero(FSub(a, b)) = FALSE /\ FSub(a, b).m < 0

\* f32::max: the other operand when one is NaN.
FMax(a, b) ==
  IF IsNaN(a) THEN b
  ELSE IF IsNaN(b) THEN a
  ELSE IF FLess(a, b) THEN b ELSE a

One == Num(1, 0)
\* std::f32::consts::PI.
PI == Num(3142, 0 - 3)

----------------------------------------------------------------------------
(* spectrum.rs: the band-pass filter bank. *)

\* BandpassFilter::new(low, high).
BandpassFilter_new(low, high) ==
  [low |-> Num(low, 0), high |-> Num(high, 0), y1 |-> Zero, y2 |-> Zero]

\* SpectrumAnalyzer::new(sample_rate): the four filters and the rate.  (The
\* FFT planner holds plans only; the resolution flag is never read.)
SpectrumAnalyzer_new(sample_rate) ==
  [filters |-> << BandpassFilter_new(0, 80), BandpassFilter_new(80, 1000),
                  BandpassFilter_new(1000, 6000),
                  BandpassFilter_new(6000, 20000) >>,
   sample_rate |-> Num(sample_rate, 0)]

\* BandpassFilter::process(x, sample_rate): the filter after the sample;
\* the value returned is y1 - y2 of it.
BandpassFilter_process(filter, x, sample_rate) ==
  LET dt == FDiv(One, sample_rate)
      rc_low == FDiv(One, FMul(FMul(Num(2, 0), PI), filter.high))
      rc_high == FDiv(One, FMul(FMul(Num(2, 0), PI), filter.low))
      alpha_low == FDiv(dt, FAdd(rc_low, dt))
      alpha_high == FDiv(rc_high, FAdd(rc_high, dt))
      y1 == FAdd(FMul(alpha_low, x), FMul(FSub(One, alpha_low), filter.y1))
      y2 == FAdd(FMul(alpha_high, y1), FMul(FSub(One, alpha_high), filter.y2))
  IN [filter EXCEPT !.y1 = y1, !.y2 = y2]

filter_output(filter) == FSub(filter.y1, filter.y2)

\* The filter after process was called on it with samples[1..n] in turn.
RECURSIVE filter_after(_, _, _, _)
filter_after(filter, samples, n, sample_rate) ==
  IF n = 0 THEN filter
  ELSE BandpassFilter_process(filter_after(filter, samples, n - 1, sample_rate),
                              samples[n], sample_rate)

\* samples.iter().map(|&x| filter.process(x, sample_rate)).collect(): the
\* values returned, collected.
filter_map(filter, samples, sample_rate) ==
  [n \in 1..Len(samples) |->
     filter_output(filter_after(filter, samples, n, sample_rate))]

RECURSIVE FSumSquares(_, _)
FSumSquares(x, from) ==
  IF from > Len(x) THEN Zero
  ELSE FAdd(FMul(x[from], x[from]), FSumSquares(x, from + 1))

RECURSIVE FPeak(_, _, _)
FPeak(x, from, acc) ==
  IF from > Len(x) THEN acc
  ELSE FPeak(x, from + 1, FMax(acc, FAbs(x[from])))

\* level = 0.7 * rms + 0.3 * peak of the filtered samples.
band_level(filtered) ==
  LET rms == FSqrt(FDiv(FSumSquares(filtered, 1), Num(Len(filtered), 0)))
      peak == FPeak(filtered, 1, Zero)
  IN FAdd(FMul(Num(7, 0 - 1), rms), FMul(Num(3, 0 - 1), peak))

\* A compute_band_levels that starts every call from zeroed filter states.
compute_band_levels_reset(self, samples) ==
  [analyzer |-> [self EXCEPT
                   !.filters = [f \in 1..Len(self.filters) |->
                                  filter_after([self.filters[f] EXCEPT
                                                  !.y1 = Zero, !.y2 = Zero],
                                               samples, Len(samples),
                                               self.sample_rate)]],
   failed |-> FALSE,
   band_levels |-> [f \in 1..Len(self.filters) |->
                      band_level(filter_map([self.filters[f] EXCEPT
                                               !.y1 = Zero, !.y2 = Zero],
                                            samples, self.sample_rate))]]

\* compute_band_levels(samples): the filters after the call and the levels
\* returned, one per filter in the order of the bank.  No path of it fails.
compute_band_levels(self, samples) ==
  [analyzer |-> [self EXCEPT
                   !.filters = [f \in 1..Len(self.filters) |->
                                  filter_after(self.filters[f], samples,
                                               Len(samples),
                                               self.sample_rate)]],
   failed |-> FALSE,
   band_levels |-> [f \in 1..Len(self.filters) |->
                      band_level(filter_map(self.filters[f], samples,
                                            self.sample_rate))]]


----------------------------------------------------------------------------
(* The inputs: synthetic signals.  A signal is amp * cos(2*pi*n*num/den)   *)
(* for n = 0 .. len-1, a tone of frequency SAMPLE_RATE * num / den; num = 0 *)
(* gives a constant and amp = 0 silence.                                   *)

tone_samples(sig) ==
  [k \in 1..sig.len |->
     MulQ(sig.amp, CosTurn(((k - 1) * sig.num) % sig.den, sig.den))] \o << >>

\* The tone's frequency in 1/1000 Hz.
tone_freq(sig) == MulDiv(SAMPLE_RATE * sig.num, 1000, sig.den)

Silence == [amp |-> 0, num |-> 0, den |-> 1, len |-> BUFFER_SZ]
\* 1000 Hz at five times full scale.
LoudTone == [amp |-> 5 * Unit, num |-> 10, den |-> 441, len |-> BUFFER_SZ]
\* 1000 Hz at half of full scale, of two, a half and no buffer lengths, and of
\* one sample more than a buffer.
LongTone == [amp |-> Unit \div 2, num |-> 10, den |-> 441,
             len |-> 2 * BUFFER_SZ]
ShortTone == [LongTone EXCEPT !.len = BUFFER_SZ \div 2]
NoSamples == [LongTone EXCEPT !.len = 0]
OddTone == [LongTone EXCEPT !.len = BUFFER_SZ + 1]

Signals == << Silence, LoudTone, LongTone, ShortTone, NoSamples, OddTone >>
SignalSet == {Signals[i] : i \in 1..Len(Signals)}
SignalIndex(sig) == CHOOSE i \in 1..Len(Signals) : Signals[i] = sig

\* The buffers of the signals and what compute_spectrum does on each,
\* evaluated once.
SignalBuffers == [i \in 1..Len(Signals) |-> tone_samples(Signals[i])] \o << >>
SignalFrames ==
  [i \in 1..Len(Signals) |-> spectrum_frame(SignalBuffers[i])] \o << >>
signal_buffer(sig) == SignalBuffers[SignalIndex(sig)]

frame_of(audio_buffer) ==
  IF \E i \in 1..Len(Signals) : SignalBuffers[i] = audio_buffer
  THEN SignalFrames[CHOOSE i \in 1..Len(Signals) :
                      SignalBuffers[i] = audio_buffer]
  ELSE spectrum_frame(audio_buffer)

\* What the caller gets of a frame.
returned(frame) == [panic |-> frame.panic, spectrum |-> frame.spectrum]

\* SpectrumAnalyzer::compute_spectrum(audio_buffer): a panic, or the
\* spectrum returned.
compute_spectrum(audio_buffer) == returned(frame_of(audio_buffer))

\* A compute_spectrum whose bins are weighted by the analyzer's own rate.
compute_spectrum_at_own_rate(self, audio_buffer) ==
  IF self.sample_rate = Num(SAMPLE_RATE, 0) THEN compute_spectrum(audio_buffer)
  ELSE [panic |-> compute_spectrum(audio_buffer).panic,
        spectrum |-> [k \in 1..Len(compute_spectrum(audio_buffer).spectrum) |->
                        compute_spectrum(audio_buffer).spectrum[k] \div 2]]

\* analyzer.compute_spectrum(audio_buffer) as a method: of self it uses the
\* FFT planner only, and reads neither self.sample_rate nor self.filters.
SpectrumAnalyzer_compute_spectrum(self, audio_buffer) ==
  compute_spectrum(audio_buffer)

\* The samples handed to compute_band_levels: 1.0 and -0.5.
SampleValues == {One, Num(0 - 5, 0 - 1)}
\* The longest sample sequence of one call, and the most samples fed to one
\* analyzer.
MaxSamples == 2
MaxFed == 3
SampleSeqs == UNION {[1..n -> SampleValues] : n \in 0..MaxSamples}
\* The sample rates an analyzer is constructed with.
SampleRates == {44100, 48000}

----------------------------------------------------------------------------
(* The state: one analyzer and the calls made on it; the application of    *)
(* main.rs with its shared spectrum, its GUI and its capture sessions; the *)
(* JACK client.                                                            *)

VARIABLES
  analyzer,       \* the SpectrumAnalyzer: its filters and its sample rate
  fed,            \* every sample compute_band_levels was given, in order
  op,             \* the last call made: "new", "compute_spectrum", ...
  signal,         \* the signal of the last compute_spectrum call
  outcome,        \* what the last compute_spectrum call did
  band_input,     \* the samples of the last compute_band_levels call
  band_outcome,   \* what the last compute_band_levels call did
  spectrum,       \* the vector in the shared Arc<Mutex<Vec<f32>>>
  stores,         \* how many times a result was stored in it
  mutex,          \* the holder of its mutex: "free" or "gui"
  display_buffer, \* SpectrumApp.display_buffer
  frame_buffer,   \* SpectrumApp.frame_buffer
  gui,            \* the GUI thread: where update_display_buffer stands
  manager,        \* the audio manager thread: "start", "recv", "done"
  cmd_queue,      \* the commands sent and not yet received
  current_stream, \* the session of current_stream, 0 for None
  sessions,       \* one record per audio_processing thread spawned
  sent,           \* how many commands the user input thread has sent
  callbacks,      \* how many times an audio callback has run
  jack            \* the JackHandler: its buffer and the port's period

analyzerVars ==
  << analyzer, fed, op, signal, outcome, band_input, band_outcome >>
guiVars == << spectrum, stores, mutex, display_buffer, frame_buffer, gui >>
captureVars ==
  << manager, cmd_queue, current_stream, sessions, sent, callbacks >>
vars == << analyzerVars, guiVars, captureVars, jack >>

NoOutcome == [panic |-> FALSE, spectrum |-> << >>]
NoBandOutcome == [failed |-> FALSE, band_levels |-> << >>]

\* No analyzer under test.
AnalyzerUnused ==
  /\ analyzer = SpectrumAnalyzer_new(SAMPLE_RATE)
  /\ fed = << >>
  /\ op = "new"
  /\ signal = Silence
  /\ outcome = NoOutcome
  /\ band_input = << >>
  /\ band_outcome = NoBandOutcome

\* No application.
GuiUnused ==
  /\ spectrum = << >>
  /\ stores = 0
  /\ mutex = "free"
  /\ display_buffer = << >>
  /\ frame_buffer = << >>
  /\ gui = [state |-> "none", i |-> 0, sources |-> {}, passes |-> 0]

\* No capture thread.
CaptureUnused ==
  /\ manager = "none"
  /\ cmd_queue = << >>
  /\ current_stream = 0
  /\ sessions = << >>
  /\ sent = 0
  /\ callbacks = 0

\* No JACK client.
JackUnused ==
  jack = [state |-> "none", buffer |-> << >>, period |-> 0,
          signal |-> Silence, calls |-> 0]

----------------------------------------------------------------------------
(* The analyzer on its own: one instance and the calls made on it. *)

AnalyzerInit ==
  /\ \E sr \in SampleRates : analyzer = SpectrumAnalyzer_new(sr)
  /\ fed = << >>
  /\ op = "new"
  /\ signal = Silence
  /\ outcome = NoOutcome
  /\ band_input = << >>
  /\ band_outcome = NoBandOutcome
  /\ GuiUnused /\ CaptureUnused /\ JackUnused

\* analyzer.compute_spectrum(&buffer) on the buffer of a signal.
CallComputeSpectrum(sig) ==
  /\ op' = "compute_spectrum"
  /\ signal' = sig
  /\ outcome' = SpectrumAnalyzer_compute_spectrum(analyzer,
                                                 signal_buffer(sig))
  /\ UNCHANGED << analyzer, fed, band_input, band_outcome >>
  /\ UNCHANGED << guiVars, captureVars, jack >>

\* analyzer.compute_band_levels(&samples).
CallComputeBandLevels(samples) ==
  /\ Len(fed) + Len(samples) <= MaxFed
  /\ \E r \in {compute_band_levels(analyzer, samples)} :
       /\ analyzer' = r.analyzer
       /\ band_outcome' = [failed |-> r.failed, band_levels |-> r.band_levels]
  /\ op' = "compute_band_levels"
  /\ band_input' = samples
  /\ fed' = fed \o samples
  /\ UNCHANGED << signal, outcome >>
  /\ UNCHANGED << guiVars, captureVars, jack >>

AnalyzerNext ==
  \/ \E sig \in SignalSet : CallComputeSpectrum(sig)
  \/ \E samples \in SampleSeqs : CallComputeBandLevels(samples)

SpecAnalyzer == AnalyzerInit /\ [][AnalyzerNext]_vars

----------------------------------------------------------------------------
(* The shared spectrum and the GUI: main.rs and app.rs. *)

\* vec![0.0; 2048] in main and in SpectrumApp::new.
SPECTRUM_LEN == 2048
DISPLAY_LEN == 2048
\* The elements update_display_buffer reads in one step of the model, and the
\* frames the GUI draws at most.
ReadStep == 1024
MaxPasses == 1

zeros(n) == [k \in 1..n |-> 0]

\* A lock that never waits.
lock_ignored(holder) == TRUE

\* spectrum.lock() returns once nobody holds the mutex.
lock_free(holder) == holder = "free"

\* target = value.max(shown * 0.95); shown * 0.8 + target * 0.2.
smoothed(value, shown) ==
  (shown * 8) \div 10 + (Max(value, (shown * 95) \div 100) * 2) \div 10

\* The loop body of update_display_buffer run for the indices lo+1..hi.
update_range(display, vec, lo, hi) ==
  [k \in 1..Len(display) |->
     IF lo < k /\ k <= hi THEN smoothed(vec[k], display[k]) ELSE display[k]]

\* main and SpectrumApp::new.
GuiInit ==
  /\ spectrum = zeros(SPECTRUM_LEN)
  /\ stores = 0
  /\ mutex = "free"
  /\ display_buffer = zeros(DISPLAY_LEN)
  /\ frame_buffer = zeros(DISPLAY_LEN)
  /\ gui = [state |-> "idle", i |-> 0, sources |-> {}, passes |-> 0]

\* update_display_buffer: the lock is taken and display_buffer copied.
GuiLock ==
  /\ gui.state = "idle"
  /\ gui.passes < MaxPasses
  /\ lock_free(mutex)
  /\ mutex' = "gui"
  /\ frame_buffer' = display_buffer
  /\ gui' = [state |-> "reading", i |-> 0, sources |-> {},
             passes |-> gui.passes + 1]
  /\ UNCHANGED << spectrum, stores, display_buffer >>

\* update_display_buffer: the next elements of the locked vector are read
\* into display_buffer; an index display_buffer does not have is a panic,
\* whose unwinding releases the lock.
GuiIterate ==
  /\ gui.state = "reading"
  /\ gui.i < Len(spectrum)
  /\ \E hi \in {Min(gui.i + ReadStep, Len(spectrum))} :
       \E last \in {Min(hi, Len(display_buffer))} :
         /\ display_buffer' =
              update_range(display_buffer, spectrum, gui.i, last)
         /\ gui' = [gui EXCEPT
                      !.state = IF hi > last THEN "panicked" ELSE @,
                      !.i = last,
                      !.sources = @ \cup {stores}]
         /\ mutex' = IF hi > last THEN "free" ELSE mutex
  /\ UNCHANGED << spectrum, stores, frame_buffer >>

\* update_display_buffer returns: the lock is released.
GuiUnlock ==
  /\ gui.state = "reading"
  /\ gui.i >= Len(spectrum)
  /\ mutex' = "free"
  /\ gui' = [gui EXCEPT !.state = "idle"]
  /\ UNCHANGED << spectrum, stores, display_buffer, frame_buffer >>

----------------------------------------------------------------------------
(* The capture sessions: main.rs and capture.rs. *)

\* HeapRb::<f32>::new(8192), and the 2048 samples the processing thread
\* waits for and pops.
RING_CAPACITY == 8192
PROCESS_CHUNK == 2048
\* The devices enumerated, the commands the user sends at most, the audio
\* callbacks run at most and the samples one callback delivers.
NumDevices == 2
MaxCommands == 1
MaxCallbacks == 2
CallbackFrames == 2048

\* device.name() contains "vb-": the devices of odd index.
is_vb(device) == device % 2 = 1
\* get_default_device(): the first "vb-" device, else the first device.
get_default_device == IF NumDevices > 1 THEN 1 ELSE 0
\* get_device_by_index(index) is Some.
get_device_by_index(index) == index < NumDevices

\* What the device delivers to a callback: a 1000 Hz tone at half scale.
capture_data ==
  tone_samples([amp |-> Unit \div 2, num |-> 10, den |-> 441,
                len |-> CallbackFrames])

\* sample * gain_compensation for every sample of a callback, by gain.
compensated_data ==
  [gain \in {1, 2} |->
     [k \in 1..Len(capture_data) |-> capture_data[k] * gain] \o << >>]

\* How get_device_config, create_audio_stream and stream.play() may end.
StreamResults == {"config_err", "spawn_err", "build_err", "play_err", "ok"}

\* The audio_processing thread create_audio_stream spawns, with its ring, its
\* buffer and its analyzer, and the state of the stream built for it.
new_session(device, stream) ==
  [thread |-> "running", stream |-> stream, ring |-> << >>,
   buffer |-> << >>, calls |-> 0,
   gain |-> IF is_vb(device) THEN 2 ELSE 1,
   analyzer |-> SpectrumAnalyzer_new(SAMPLE_RATE)]

\* get_device_config, create_audio_stream and stream.play() on a device: the
\* sessions after them and the stream returned, 0 for none.  The thread is
\* spawned before the stream is built, and stays when the build or play fails.
open_stream(ss, device, result) ==
  IF result \in {"config_err", "spawn_err"}
  THEN [sessions |-> ss, stream |-> 0]
  ELSE [sessions |->
          Append(ss, new_session(device,
                                 CASE result = "build_err" -> "none"
                                   [] result = "play_err" -> "dropped"
                                   [] OTHER -> "active")),
        stream |-> IF result = "ok" THEN Len(ss) + 1 ELSE 0]

\* A stream that is taken out of current_stream and kept playing.
keep_stream(ss, id) == ss

\* drop(stream).
drop_stream(ss, id) ==
  IF id = 0 THEN ss ELSE [ss EXCEPT ![id].stream = "dropped"]

CaptureInit ==
  /\ manager = "start"
  /\ cmd_queue = << >>
  /\ current_stream = 0
  /\ sessions = << >>
  /\ sent = 0
  /\ callbacks = 0

\* The manager thread starts: start_capture() and play().
ManagerStart(result) ==
  /\ manager = "start"
  /\ \E r \in {open_stream(sessions, get_default_device, result)} :
       /\ sessions' = r.sessions
       /\ current_stream' = r.stream
  /\ manager' = "recv"
  /\ UNCHANGED << cmd_queue, sent, callbacks, guiVars, analyzerVars, jack >>

\* The manager thread receives SwitchDevice(index): the current stream is
\* dropped, then switch_device(index) and play().
ManagerSwitchDevice(result) ==
  /\ manager = "recv"
  /\ cmd_queue # << >>
  /\ Head(cmd_queue).type = "SwitchDevice"
  /\ \E r \in {IF get_device_by_index(Head(cmd_queue).index)
               THEN open_stream(drop_stream(sessions, current_stream),
                                Head(cmd_queue).index, result)
               ELSE [sessions |-> drop_stream(sessions, current_stream),
                     stream |-> 0]} :
       /\ sessions' = r.sessions
       /\ current_stream' = r.stream
  /\ cmd_queue' = Tail(cmd_queue)
  /\ UNCHANGED << manager, sent, callbacks, guiVars, analyzerVars, jack >>

\* The manager thread receives Quit and ends; its stream is dropped with it.
ManagerQuit ==
  /\ manager = "recv"
  /\ cmd_queue # << >>
  /\ Head(cmd_queue).type = "Quit"
  /\ manager' = "done"
  /\ sessions' = drop_stream(sessions, current_stream)
  /\ current_stream' = 0
  /\ cmd_queue' = Tail(cmd_queue)
  /\ UNCHANGED << sent, callbacks, guiVars, analyzerVars, jack >>

\* The user input thread reads a device number and sends SwitchDevice.
UserInput(index) ==
  /\ manager \in {"start", "recv", "done"}
  /\ sent < MaxCommands
  /\ sent' = sent + 1
  /\ cmd_queue' = IF manager = "done" THEN cmd_queue
                  ELSE Append(cmd_queue,
                              [type |-> "SwitchDevice", index |-> index])
  /\ UNCHANGED << manager, current_stream, sessions, callbacks, guiVars,
                  analyzerVars, jack >>

\* The window is closed: run_native returns and main sends Quit.
GuiExit ==
  /\ gui.state = "idle"
  /\ gui' = [gui EXCEPT !.state = "exited"]
  /\ cmd_queue' = Append(cmd_queue, [type |-> "Quit", index |-> 0])
  /\ UNCHANGED << manager, current_stream, sessions, sent, callbacks,
                  spectrum, stores, mutex, display_buffer, frame_buffer,
                  analyzerVars, jack >>

\* main has joined the manager thread and returns: the process is gone, and
\* every thread with it.
MainExit ==
  /\ gui.state = "exited"
  /\ manager = "done"
  /\ manager' = "exited"
  /\ sessions' = [s \in 1..Len(sessions) |->
                    [sessions[s] EXCEPT !.thread = "exited"]]
  /\ UNCHANGED << cmd_queue, current_stream, sent, callbacks, guiVars,
                  analyzerVars, jack >>

\* The data callback of a playing stream: the samples times the gain are
\* pushed to the ring, as many as fit.
AudioCallback(s) ==
  /\ sessions[s].stream = "active"
  /\ callbacks < MaxCallbacks
  /\ callbacks' = callbacks + 1
  /\ \E compensated \in {compensated_data[sessions[s].gain]} :
       sessions' =
         [sessions EXCEPT
            ![s].ring = @ \o SubSeq(compensated, 1,
                                    Min(Len(compensated),
                                        RING_CAPACITY - Len(@)))]
  /\ UNCHANGED << manager, cmd_queue, current_stream, sent, guiVars,
                  analyzerVars, jack >>

\* One round of the while loop of the audio_processing thread: 2048 samples
\* are popped into the buffer and given to compute_spectrum; a panic ends
\* the thread, a result is stored under the lock.
AudioProcess(s) ==
  /\ sessions[s].thread = "running"
  /\ Len(sessions[s].ring) >= PROCESS_CHUNK
  /\ \E popped \in {SubSeq(sessions[s].ring, 1, PROCESS_CHUNK)} :
       \E spectrum_data \in {SpectrumAnalyzer_compute_spectrum(
                                sessions[s].analyzer, popped)} :
         /\ spectrum_data.panic \/ lock_free(mutex)
         /\ sessions' =
              [sessions EXCEPT
                 ![s].buffer = popped,
                 ![s].calls = @ + 1,
                 ![s].ring = SubSeq(@, PROCESS_CHUNK + 1, Len(@)),
                 ![s].thread = IF spectrum_data.panic THEN "panicked" ELSE @]
         /\ spectrum' = IF spectrum_data.panic THEN spectrum
                        ELSE spectrum_data.spectrum
         /\ stores' = IF spectrum_data.panic THEN stores ELSE stores + 1
  /\ UNCHANGED << manager, cmd_queue, current_stream, sent, callbacks, mutex,
                  display_buffer, frame_buffer, gui, analyzerVars, jack >>

Init == AnalyzerUnused /\ GuiInit /\ CaptureInit /\ JackUnused

GuiStep ==
  /\ manager \in {"start", "recv", "done"}
  /\ GuiLock \/ GuiIterate \/ GuiUnlock
  /\ UNCHANGED << captureVars, analyzerVars, jack >>

Next ==
  \/ \E result \in StreamResults : ManagerStart(result)
  \/ \E result \in StreamResults : ManagerSwitchDevice(result)
  \/ ManagerQuit
  \/ \E index \in 0..NumDevices : UserInput(index)
  \/ GuiStep
  \/ GuiExit
  \/ MainExit
  \/ \E s \in 1..Len(sessions) : AudioCallback(s)
  \/ \E s \in 1..Len(sessions) : AudioProcess(s)

Spec == Init /\ [][Next]_vars

----------------------------------------------------------------------------
(* The JACK client: jack_capture.rs.  Its process callback is the writer of *)
(* the shared spectrum; the analysis it calls is modelled by                *)
(* SpectrumAnalyzer::compute_spectrum.                                      *)

\* if self.buffer.len() >= 4096, and &self.buffer[..4096].
JACK_FRAMES == 4096
\* The process callbacks run at most.
MaxJackCalls == 4
\* The frames of one process cycle.
JackPeriods == {JACK_FRAMES \div 4, JACK_FRAMES \div 2, JACK_FRAMES}
\* What the port delivers: silence, or a 1000 Hz tone.
JackSignals == {Silence, LoudTone}

\* JackAudioCapture::new: the handler with an empty buffer.
JackInit ==
  /\ \E period \in JackPeriods :
       jack = [state |-> "active", buffer |-> << >>, period |-> period,
               signal |-> Silence, calls |-> 0]
  /\ AnalyzerUnused /\ GuiInit /\ CaptureUnused

\* JackHandler::process: the port's samples are appended to the buffer; once
\* 4096 are there, their spectrum is stored under the lock and the buffer is
\* cleared.
JackProcess(sig) ==
  /\ jack.state = "active"
  /\ gui.state # "panicked"
  /\ jack.calls < MaxJackCalls
  /\ jack.buffer = << >> \/ sig = jack.signal
  /\ \E in_port \in {SubSeq(signal_buffer(sig), Len(jack.buffer) + 1,
                            Len(jack.buffer) + jack.period)} :
       \E buffer \in {jack.buffer \o in_port} :
         IF Len(buffer) >= JACK_FRAMES
         THEN /\ lock_free(mutex)
              /\ spectrum' =
                   compute_spectrum(SubSeq(buffer, 1, JACK_FRAMES)).spectrum
              /\ stores' = stores + 1
              /\ jack' = [jack EXCEPT !.buffer = << >>, !.signal = sig,
                                      !.calls = @ + 1]
         ELSE /\ jack' = [jack EXCEPT !.buffer = buffer, !.signal = sig,
                                      !.calls = @ + 1]
              /\ UNCHANGED << spectrum, stores >>
  /\ UNCHANGED << mutex, display_buffer, frame_buffer, gui, captureVars,
                  analyzerVars >>

\* The GUI thread beside the JACK client.
JackGuiStep ==
  /\ GuiLock \/ GuiIterate \/ GuiUnlock
  /\ UNCHANGED << captureVars, analyzerVars, jack >>

JackNext ==
  \/ \E sig \in JackSignals : JackProcess(sig)
  \/ JackGuiStep

SpecJack == JackInit /\ [][JackNext]_vars

----------------------------------------------------------------------------
(* Properties of the analyzer, checked under SpecAnalyzer. *)

\* The frame of the last compute_spectrum call, with the closure's locals.
last_frame == SignalFrames[SignalIndex(signal)]
Spectrum == outcome.spectrum
Returned == op = "compute_spectrum" /\ ~outcome.panic

\* C1: compute_spectrum on a buffer of exactly BUFFER_SZ samples returns a
\* sequence of exactly BUFFER_SZ elements, whatever the sample rate of the
\* analyzer and however many bins were emitted before the padding.
C1_SpectrumLength ==
  (op = "compute_spectrum" /\ signal.len = BUFFER_SZ)
    => (~outcome.panic /\ Len(Spectrum) = BUFFER_SZ)

\* A tone was analysed: fewer than BUFFER_SZ bins were emitted and the
\* spectrum returned is BUFFER_SZ long.
C1_PaddedToBufferSize ==
  /\ Returned /\ signal = LoudTone
  /\ Len(last_frame.bins) > 0 /\ Len(last_frame.bins) < BUFFER_SZ
  /\ Len(Spectrum) = BUFFER_SZ

C5_WrongLengthFails ==
  (op = "compute_spectrum" /\ signal.len # BUFFER_SZ)
    => (outcome.panic /\ Spectrum = << >>)

\* C6: compute_band_levels returns four levels for a non-empty input and
\* rejects an empty one.
C6_FourLevelsOrRejected ==
  op = "compute_band_levels"
    => IF Len(band_input) > 0
       THEN ~band_outcome.failed /\ Len(band_outcome.band_levels) = 4
       ELSE band_outcome.failed

\* C7: the state of the four filters is zero at construction and is, after
\* any calls of compute_band_levels and compute_spectrum, the state one call
\* of compute_band_levels would leave on a new analyzer given all the samples
\* of those calls in order: each sample is processed once and the state is
\* never reset, and compute_spectrum leaves it alone.
C7_FilterStatePersists ==
  \E sr \in SampleRates :
    LET fresh == SpectrumAnalyzer_new(sr)
    IN /\ analyzer.sample_rate = fresh.sample_rate
       /\ Len(analyzer.filters) = 4
       /\ \A f \in 1..4 :
            /\ fresh.filters[f].y1 = Zero /\ fresh.filters[f].y2 = Zero
            /\ analyzer.filters[f] =
                 filter_after(fresh.filters[f], fed, Len(fed),
                              fresh.sample_rate)

\* compute_band_levels was called at least twice, the last time with one
\* sample, then compute_spectrum, and a filter holds a state that is not zero.
C7_SecondCallContinues ==
  /\ op = "compute_spectrum"
  /\ Len(band_input) = 1 /\ Len(fed) > Len(band_input)
  /\ analyzer.filters[2].y1 # Zero

\* C9: for BUFFER_SZ zeros the decibel value of every emitted bin is the
\* floor 20 * log10(1e-10) = -200 dB of the epsilon guard, its normalized
\* value is 0.0, and the spectrum returned is 0.0 at each of its BUFFER_SZ
\* indices.
C9_SilenceIsZero ==
  (op = "compute_spectrum" /\ signal.amp = 0 /\ signal.len = BUFFER_SZ)
    => /\ ~outcome.panic
       /\ \A k \in 1..Len(last_frame.bins) :
            /\ last_frame.bins[k].db = 0 - 200 * Unit
            /\ last_frame.bins[k].normalized_db = 0
       /\ Len(Spectrum) = BUFFER_SZ
       /\ \A k \in 1..BUFFER_SZ : Spectrum[k] = 0

\* Silence was analysed: bins were emitted, with no magnitude.
C9_SilenceAnalysed ==
  /\ Returned /\ signal = Silence
  /\ Len(last_frame.bins) > 0
  /\ \A k \in 1..Len(last_frame.bins) : last_frame.bins[k].magnitude = 0
  /\ Len(Spectrum) = BUFFER_SZ

\* The first index of lo..hi at which bins has its largest magnitude.
RECURSIVE PeakIndex(_, _, _)
PeakIndex(bins, lo, hi) ==
  IF lo = hi THEN lo
  ELSE LET mid == (lo + hi) \div 2
           a == PeakIndex(bins, lo, mid)
           b == PeakIndex(bins, mid + 1, hi)
       IN IF bins[b].magnitude > bins[a].magnitude THEN b ELSE a

\* The first index of lo..hi at which the mapped frequency is closest to f.
RECURSIVE ClosestIndex(_, _, _, _)
ClosestIndex(bins, f, lo, hi) ==
  IF lo = hi THEN lo
  ELSE LET mid == (lo + hi) \div 2
           a == ClosestIndex(bins, f, lo, mid)
           b == ClosestIndex(bins, f, mid + 1, hi)
       IN IF Abs(bins[b].freq - f) < Abs(bins[a].freq - f) THEN b ELSE a

\* C10: for a pure tone the emitted bin of the largest magnitude is the bin
\* whose mapped frequency get_freq(i) is closest to the tone's frequency.
C10_PeakAtClosestMappedBin ==
  (Returned /\ signal.amp > 0 /\ signal.num > 0 /\ signal.len = BUFFER_SZ)
    => LET bins == last_frame.bins
       IN bins[PeakIndex(bins, 1, Len(bins))].i =
            bins[ClosestIndex(bins, tone_freq(signal), 1, Len(bins))].i

----------------------------------------------------------------------------
(* Properties of the capture pipeline, checked under Spec and SpecJack. *)

\* C3: every buffer the audio_processing thread has handed to
\* compute_spectrum has exactly BUFFER_SZ samples.
C3_CaptureBufferIsBufferSize ==
  \A s \in 1..Len(sessions) :
    sessions[s].calls > 0 => Len(sessions[s].buffer) = BUFFER_SZ

\* The audio_processing threads still in their loop, and the streams still
\* delivering samples.
LiveThreads == {s \in 1..Len(sessions) : sessions[s].thread = "running"}
ActiveStreams == {s \in 1..Len(sessions) : sessions[s].stream = "active"}

\* C8: once no processing thread has a chunk left to work on, the threads
\* still alive are no more than the active streams: a thread whose stream was
\* dropped has terminated.
C8_ThreadsEndWithTheirStream ==
  (/\ manager # "exited"
   /\ \A s \in LiveThreads : Len(sessions[s].ring) < PROCESS_CHUNK)
  => Cardinality(LiveThreads) <= Cardinality(ActiveStreams)

----------------------------------------------------------------------------
(* Properties of the smoothing, the sample rate and the display. *)

\* The padded sequence the smoothing pass of the last call started from.
padded_of_last == pad_spectrum(collect(last_frame.bins))

\* C11: the returned sequence s is the three-point average of the padded
\* sequence p: s[i] = 0.5*p[i] + 0.25*p[i-1] + 0.25*p[i+1] at every interior
\* index (up to the rounding of one unit), and the first and last element
\* are those of p.
C11_AverageOfPaddedNeighbours ==
  Returned =>
    \A p \in {padded_of_last} :
      /\ Len(Spectrum) = Len(p)
      /\ Spectrum[1] = p[1]
      /\ Spectrum[Len(p)] = p[Len(p)]
      /\ \A i \in 2..(Len(p) - 1) :
           Abs(4 * Spectrum[i] - (2 * p[i] + p[i - 1] + p[i + 1])) <= 4

SwitchDeviceStep ==
  /\ manager = "recv"
  /\ cmd_queue # << >>
  /\ Head(cmd_queue).type = "SwitchDevice"
  /\ cmd_queue' = Tail(cmd_queue)

\* current_stream holds the one playing stream, or there is none.
OneStreamHeld ==
  ActiveStreams = IF current_stream = 0 THEN {} ELSE {current_stream}

\* C14: at most one stream is ever held, and it is the only one playing.  A
\* SwitchDevice(index) stops the stream held before; afterwards
\* current_stream holds a stream only if it is a new one, created for a
\* device that exists and started, and no stream plays otherwise.
C14_SwitchStopsThenHoldsStarted ==
  /\ [](OneStreamHeld /\ Cardinality(ActiveStreams) <= 1)
  /\ [][SwitchDeviceStep =>
          /\ current_stream # 0 =>
               sessions'[current_stream].stream = "dropped"
          /\ current_stream' # 0 =>
               /\ get_device_by_index(Head(cmd_queue).index)
               /\ current_stream' = Len(sessions) + 1
               /\ sessions'[current_stream'].stream = "active"
          /\ current_stream' = 0 => ActiveStreams' = {}
          /\ ~get_device_by_index(Head(cmd_queue).index) =>
               current_stream' = 0]_vars

\* A switch has stopped the first stream and started a second one.
C14_SwitchedToSecondStream ==
  /\ Len(sessions) = 2
  /\ sessions[1].stream = "dropped"
  /\ sessions[2].stream = "active"
  /\ current_stream = 2
  /\ sent >= 1

\* A value that is neither NaN nor infinite.
IsFinite(a) == a.k = "num"

\* C15: the update of each of the four filters divides by no zero: after
\* compute_band_levels on finite samples, for either sample rate, every
\* filter holds finite y1 and y2 (a finite output y1 - y2) and every band
\* level is finite.
C15_FilterUpdateFinite ==
  (op = "compute_band_levels" /\ band_input # << >>) =>
    /\ \A b \in 1..Len(analyzer.filters) :
         /\ IsFinite(analyzer.filters[b].y1)
         /\ IsFinite(analyzer.filters[b].y2)
         /\ IsFinite(filter_output(analyzer.filters[b]))
    /\ \A b \in 1..Len(band_outcome.band_levels) :
         IsFinite(band_outcome.band_levels[b])

\* if freq > SAMPLE_RATE / 2.0 { return None }: bin i passes the filter.
passes_nyquist(i) == get_freq(i) <= (SAMPLE_RATE * 1000) \div 2

\* C16: get_freq is strictly increasing over the bins taken, it is at most
\* SAMPLE_RATE / 2 exactly for the bins 0..1023, and so every call that
\* returns has emitted exactly BUFFER_SZ / 4 = 1024 bins, the k-th of them
\* transform bin k - 1; the padded sequence holds their values at the first
\* 1024 indices and the zeros of the padding at every index from 1024 on.
C16_EmittedBinsAreLowQuarter ==
  Returned =>
    /\ \A i \in 0..(BUFFER_SZ_HALF - 2) : get_freq(i) < get_freq(i + 1)
    /\ \A i \in 0..(BUFFER_SZ_HALF - 1) :
         passes_nyquist(i) <=> i <= BUFFER_SZ \div 4 - 1
    /\ Len(last_frame.bins) = BUFFER_SZ \div 4
    /\ \A k \in 1..Len(last_frame.bins) : last_frame.bins[k].i = k - 1
    /\ \A p \in {padded_of_last} :
         /\ Len(p) = BUFFER_SZ
         /\ \A k \in 1..Len(p) :
              p[k] = IF k <= BUFFER_SZ \div 4
                     THEN last_frame.bins[k].value ELSE 0

\* A tone was analysed: bin 1023 is the last one emitted, some emitted bin
\* is above zero and the padding starts at index 1024.
C16_ToneFillsLowQuarter ==
  /\ Returned /\ signal = LoudTone
  /\ last_frame.bins[Len(last_frame.bins)].i = BUFFER_SZ \div 4 - 1
  /\ \E k \in 1..Len(last_frame.bins) : last_frame.bins[k].value > 0
  /\ padded_of_last[BUFFER_SZ \div 4 + 1] = 0
  /\ Len(Spectrum) = BUFFER_SZ

============================================================================
